---- MODULE Spec2Model ----
(***************************************************************************)
(* Model of the reverse soft-link plugin (plugins/rsoftlinking).           *)
(*                                                                         *)
(* A Python str is a sequence of one-character strings; a pathlib.Path is  *)
(* represented by its normalised string str(Path(...)).  The filesystem    *)
(* is a function from the paths of a small universe to the object found    *)
(* there (by lstat).                                                       *)
(***************************************************************************)
EXTENDS Integers, Sequences, FiniteSets, TLC

(***************************************************************************)
(* Bounds of the model.                                                    *)
(***************************************************************************)
\* longest file_list / file_list_new of a transfer-complete event
MaxBatch == 2
\* most records of the transfer history a scan reads
MaxRecords == 2
\* records per page of the transfer history store
PageSize == 2

(***************************************************************************)
(* Strings.                                                                *)
(***************************************************************************)
SLASH == "/"
DOT == "."
NL == "\n"

RECURSIVE AllSlash(_)
AllSlash(s) == s = <<>> \/ (Head(s) = SLASH /\ AllSlash(Tail(s)))

\* str.rstrip("/")
RECURSIVE RStrip(_)
RStrip(s) ==
  IF s # <<>> /\ s[Len(s)] = SLASH THEN RStrip(SubSeq(s, 1, Len(s) - 1)) ELSE s

\* str.rfind("/") + 1
RECURSIVE RFindSlash(_)
RFindSlash(s) ==
  IF s = <<>> THEN 0
  ELSE IF s[Len(s)] = SLASH THEN Len(s)
  ELSE RFindSlash(SubSeq(s, 1, Len(s) - 1))

\* posixpath.dirname
dirname(p) ==
  LET head == SubSeq(p, 1, RFindSlash(p))
  IN  IF head # <<>> /\ ~AllSlash(head) THEN RStrip(head) ELSE head

\* posixpath.basename
basename(p) == SubSeq(p, RFindSlash(p) + 1, Len(p))

\* genericpath.commonprefix of two strings: the longest common leading
\* run of characters (character by character, not segment by segment)
RECURSIVE commonprefix(_, _)
commonprefix(a, b) ==
  IF a = <<>> \/ b = <<>> \/ Head(a) # Head(b) THEN <<>>
  ELSE <<Head(a)>> \o commonprefix(Tail(a), Tail(b))

\* str.split(sep) for a one-character separator: always at least one piece
RECURSIVE SplitAcc(_, _, _)
SplitAcc(s, sep, cur) ==
  IF s = <<>> THEN <<cur>>
  ELSE IF Head(s) = sep THEN <<cur>> \o SplitAcc(Tail(s), sep, <<>>)
  ELSE SplitAcc(Tail(s), sep, Append(cur, Head(s)))

split(s, sep) == SplitAcc(s, sep, <<>>)

\* sep.join(parts)
RECURSIVE join(_, _)
join(sep, parts) ==
  IF parts = <<>> THEN <<>>
  ELSE IF Len(parts) = 1 THEN parts[1]
  ELSE parts[1] \o <<sep>> \o join(sep, Tail(parts))

(***************************************************************************)
(* pathlib.Path(s): the segments that are empty or "." are dropped, the    *)
(* root is kept, and the empty path is ".".  Two Path objects are equal    *)
(* iff their normalised strings are.                                       *)
(***************************************************************************)
PathParts(s) == SelectSeq(split(s, SLASH), LAMBDA seg : seg # <<>> /\ seg # <<DOT>>)

PathRoot(s) ==
  IF s # <<>> /\ s[1] = SLASH
  THEN IF Len(s) >= 2 /\ s[2] = SLASH /\ ~(Len(s) >= 3 /\ s[3] = SLASH)
       THEN <<SLASH, SLASH>> ELSE <<SLASH>>
  ELSE <<>>

Path(s) ==
  LET body == PathRoot(s) \o join(SLASH, PathParts(s))
  IN  IF body = <<>> THEN <<DOT>> ELSE body

\* Path.name
PathName(s) ==
  LET parts == PathParts(s) IN IF parts = <<>> THEN <<>> ELSE parts[Len(parts)]

\* Path(a) / name
PathJoin(a, name) == Path(Path(a) \o <<SLASH>> \o name)

\* Python values that are compared with == carry their type: a Path never
\* equals a str
PathObj(s) == [type |-> "Path", v |-> Path(s)]
StrObj(s) == [type |-> "str", v |-> s]
PyEq(a, b) == a.type = b.type /\ a.v = b.v

(***************************************************************************)
(* The filesystem.  Every path of the universe holds nothing, a regular    *)
(* file (with its content), a directory, or a symbolic link (with the      *)
(* target text given to os.symlink).  The root directory always exists.    *)
(* Directories of the universe are real directories, so a path names the   *)
(* object stored under it.                                                 *)
(***************************************************************************)
P_root == <<"/">>
P_d == <<"/", "d">>
P_d2 == <<"/", "d", "2">>
P_l == <<"/", "l">>
P_d_f == <<"/", "d", "/", "f">>
P_d_g == <<"/", "d", "/", "g">>
P_d2_f == <<"/", "d", "2", "/", "f">>
P_l_f == <<"/", "l", "/", "f">>
P_l_g == <<"/", "l", "/", "g">>

Dirs == {P_d, P_d2, P_l}
Leaves == {P_d_f, P_d_g, P_d2_f, P_l_f, P_l_g}
Universe == Dirs \cup Leaves

NONE == [k |-> "none"]
DIR == [k |-> "dir"]
FILE(c) == [k |-> "file", c |-> c]
LINK(t) == [k |-> "link", t |-> t]

\* the path a resolution ends on when it runs into a loop of links
LOOP == <<"<", "l", "o", "o", "p", ">">>

\* a chain of links without a loop is shorter than the number of paths
HopLimit == Cardinality(Universe)

\* the working directory of the process
CWD == P_root

\* os.path.abspath for the paths given to the filesystem calls: a relative
\* path names an object below the working directory
Abs(p) ==
  IF p # <<>> /\ p[1] = SLASH THEN p ELSE Path(RStrip(CWD) \o <<SLASH>> \o p)

\* os.lstat: the object at p itself (nothing at the empty path)
lstat(fs, p) ==
  IF p = <<>> THEN NONE
  ELSE IF Abs(p) = P_root THEN DIR
  ELSE IF Abs(p) \in DOMAIN fs THEN fs[Abs(p)] ELSE NONE

\* the path reached by following the symbolic links at p
RECURSIVE Follow(_, _, _)
Follow(fs, p, n) ==
  LET o == lstat(fs, p)
  IN  IF o.k = "link"
      THEN IF n = 0 THEN LOOP ELSE Follow(fs, Path(o.t), n - 1)
      ELSE p

\* os.stat: the object at p after following links (nothing on a loop)
stat(fs, p) == lstat(fs, Follow(fs, p, HopLimit))

\* Path.exists / os.path.exists: follows links, false when dangling
exists(fs, p) == stat(fs, p).k # "none"
\* Path.is_file: follows links
is_file(fs, p) == stat(fs, p).k = "file"
\* Path.is_dir / os.path.isdir: follows links
is_dir(fs, p) == stat(fs, p).k = "dir"
\* Path.is_symlink: does not follow
is_symlink(fs, p) == lstat(fs, p).k = "link"
\* Path.resolve(): the path with its links followed (strict=False)
resolve(fs, p) == Follow(fs, Abs(Path(p)), HopLimit)

\* the result of a filesystem call: the filesystem after it, the mutations
\* it made, and the exception it raised ("" when it returned)
Done(fs, muts) == [fs |-> fs, muts |-> muts, exc |-> ""]
Raise(fs, muts, exc) == [fs |-> fs, muts |-> muts, exc |-> exc]

\* os.mkdir
mkdir(fs, p) ==
  IF p = <<>> THEN Raise(fs, <<>>, "FileNotFoundError")
  ELSE IF lstat(fs, p).k # "none" THEN Raise(fs, <<>>, "FileExistsError")
  ELSE IF ~exists(fs, dirname(Abs(p))) THEN Raise(fs, <<>>, "FileNotFoundError")
  ELSE IF ~is_dir(fs, dirname(Abs(p))) THEN Raise(fs, <<>>, "NotADirectoryError")
  ELSE Done([fs EXCEPT ![Abs(p)] = DIR], <<[op |-> "mkdir", p |-> p, t |-> <<>>]>>)

\* os.makedirs(name, exist_ok=True): the missing ancestors first (a
\* FileExistsError from them is passed over), then mkdir(name), whose
\* OSError is passed over when name is a directory
MkdirExistOk(up, mk, name) ==
  IF mk.exc # "" /\ is_dir(up.fs, name) THEN Done(up.fs, up.muts)
  ELSE [fs |-> mk.fs, muts |-> up.muts \o mk.muts, exc |-> mk.exc]

MakedirsLeaf(up, name) ==
  IF up.exc \notin {"", "FileExistsError"} THEN up
  ELSE MkdirExistOk(up, mkdir(up.fs, name), name)

RECURSIVE makedirs(_, _)
makedirs(fs, name) ==
  MakedirsLeaf(IF dirname(name) # <<>> /\ basename(name) # <<>>
                  /\ ~exists(fs, dirname(name))
               THEN makedirs(fs, dirname(name)) ELSE Done(fs, <<>>),
               name)

\* os.remove
os_remove(fs, p) ==
  IF lstat(fs, p).k = "none" THEN Raise(fs, <<>>, "FileNotFoundError")
  ELSE IF lstat(fs, p).k = "dir" THEN Raise(fs, <<>>, "IsADirectoryError")
  ELSE Done([fs EXCEPT ![Abs(p)] = NONE], <<[op |-> "remove", p |-> p, t |-> <<>>]>>)

\* os.symlink(target, p)
os_symlink(fs, target, p) ==
  IF lstat(fs, p).k # "none" THEN Raise(fs, <<>>, "FileExistsError")
  ELSE IF ~exists(fs, dirname(Abs(p))) THEN Raise(fs, <<>>, "FileNotFoundError")
  ELSE IF ~is_dir(fs, dirname(Abs(p))) THEN Raise(fs, <<>>, "NotADirectoryError")
  ELSE Done([fs EXCEPT ![Abs(p)] = LINK(target)],
            <<[op |-> "symlink", p |-> p, t |-> target]>>)

(***************************************************************************)
(* RSoftlinking._is_valid_link and RSoftlinking._rsoftlink.  src is the    *)
(* str the callers pass, dst the str or Path they pass; the result is the  *)
(* filesystem after the call, the mutations made in order, the branch the  *)
(* call ended in and the exception that left it ("" when it returned).     *)
(***************************************************************************)
is_valid_link(fs, src, dst) ==
  LET srcp == Path(src)
      dstp == Path(dst)
  IN  /\ exists(fs, srcp)
      /\ is_symlink(fs, srcp)
      /\ PyEq(PathObj(resolve(fs, srcp)), PathObj(dstp))
      /\ exists(fs, dstp)

\* ScopeGate with the common prefix compared as text, not as a Path
ScopeGate_TextCompare(enabled_dirs, src_dir) ==
  \/ enabled_dirs = <<>>
  \/ \E i \in DOMAIN enabled_dirs :
       commonprefix(enabled_dirs[i], src_dir) = enabled_dirs[i]

\* the scope test of _rsoftlink: some configured directory x has
\* Path(commonprefix((x, src_dir))) == x, or no directory is configured
ScopeGate(enabled_dirs, src_dir) ==
  \/ enabled_dirs = <<>>
  \/ \E i \in DOMAIN enabled_dirs :
       PyEq(PathObj(commonprefix(enabled_dirs[i], src_dir)), PathObj(enabled_dirs[i]))

\* the cycle test of _rsoftlink: dst.is_symlink() and dst.resolve() == src,
\* a Path compared with the str src
CycleGate(fs, src, dstp) ==
  is_symlink(fs, dstp) /\ PyEq(PathObj(resolve(fs, dstp)), StrObj(src))

Out(fs, muts, outcome, exc) ==
  [fs |-> fs, muts |-> muts, outcome |-> outcome, exc |-> exc]

\* os.symlink(dst, src), the last statement of _rsoftlink
LinkCreate(muts, ln, outcome) ==
  Out(ln.fs, muts \o ln.muts, IF ln.exc # "" THEN "FailedIO" ELSE outcome, ln.exc)

\* after os.remove(src) of the enforced branch
LinkAfterRemove(muts, rm, src, dstp) ==
  IF rm.exc # "" THEN Out(rm.fs, muts \o rm.muts, "FailedIO", rm.exc)
  ELSE LinkCreate(muts \o rm.muts, os_symlink(rm.fs, dstp, src), "Repaired")

\* LinkAfterMakedirs with the enforced test dropped: a conflicting source is
\* always replaced
LinkAfterMakedirs_AlwaysEnforced(md, enforced, src, dstp) ==
  IF md.exc # "" THEN Out(md.fs, md.muts, "FailedIO", md.exc)
  ELSE IF ~exists(md.fs, src)
  THEN LinkCreate(md.muts, os_symlink(md.fs, dstp, src), "Created")
  ELSE IF is_valid_link(md.fs, src, dstp) THEN Out(md.fs, md.muts, "AlreadyValid", "")
  ELSE LinkAfterRemove(md.muts, os_remove(md.fs, src), src, dstp)

\* after os.makedirs(src_dir, exist_ok=True): the branch on os.path.exists(src)
LinkAfterMakedirs(md, enforced, src, dstp) ==
  IF md.exc # "" THEN Out(md.fs, md.muts, "FailedIO", md.exc)
  ELSE IF ~exists(md.fs, src)
  THEN LinkCreate(md.muts, os_symlink(md.fs, dstp, src), "Created")
  ELSE IF is_valid_link(md.fs, src, dstp) THEN Out(md.fs, md.muts, "AlreadyValid", "")
  ELSE IF ~enforced THEN Out(md.fs, md.muts, "SkippedConflictNotEnforced", "")
  ELSE LinkAfterRemove(md.muts, os_remove(md.fs, src), src, dstp)

\* _rsoftlink with os.makedirs moved before the destination test
GatesAfterMakedirs(md, enforced, src, dstp) ==
  IF md.exc # "" THEN Out(md.fs, md.muts, "FailedIO", md.exc)
  ELSE IF ~(exists(md.fs, dstp) /\ is_file(md.fs, dstp))
  THEN Out(md.fs, md.muts, "SkippedDestinationMissing", "")
  ELSE IF CycleGate(md.fs, src, dstp) THEN Out(md.fs, md.muts, "SkippedCycle", "")
  ELSE LinkAfterMakedirs(md, enforced, src, dstp)

rsoftlink_MakedirsFirst(fs, enabled_dirs, enforced, src, dst) ==
  IF ~ScopeGate(enabled_dirs, dirname(src))
  THEN Out(fs, <<>>, "SkippedOutOfScope", "")
  ELSE GatesAfterMakedirs(makedirs(fs, dirname(src)), enforced, src, Path(dst))

\* _rsoftlink with the destination test reduced to dst.exists()
rsoftlink_ExistsOnly(fs, enabled_dirs, enforced, src, dst) ==
  IF ~ScopeGate(enabled_dirs, dirname(src))
  THEN Out(fs, <<>>, "SkippedOutOfScope", "")
  ELSE IF ~exists(fs, Path(dst))
  THEN Out(fs, <<>>, "SkippedDestinationMissing", "")
  ELSE IF CycleGate(fs, src, Path(dst)) THEN Out(fs, <<>>, "SkippedCycle", "")
  ELSE LinkAfterMakedirs(makedirs(fs, dirname(src)), enforced, src, Path(dst))

rsoftlink(fs, enabled_dirs, enforced, src, dst) ==
  IF ~ScopeGate(enabled_dirs, dirname(src))
  THEN Out(fs, <<>>, "SkippedOutOfScope", "")
  ELSE IF ~(exists(fs, Path(dst)) /\ is_file(fs, Path(dst)))
  THEN Out(fs, <<>>, "SkippedDestinationMissing", "")
  ELSE IF CycleGate(fs, src, Path(dst)) THEN Out(fs, <<>>, "SkippedCycle", "")
  ELSE LinkAfterMakedirs(makedirs(fs, dirname(src)), enforced, src, Path(dst))

(***************************************************************************)
(* The plugin's state, the filesystem it works on and the observations of  *)
(* the last handler that ran.                                              *)
(***************************************************************************)
VARIABLES
  fs,            \* the filesystem
  enabled,       \* RSoftlinking._enabled
  enforced,      \* RSoftlinking._enforced
  onlyonce,      \* RSoftlinking._onlyonce
  enabled_dirs,  \* RSoftlinking._enabled_dirs: a list of Path
  cron,          \* RSoftlinking._cron
  scheduler,     \* RSoftlinking._scheduler: "None", "created" or "running"
  jobs,          \* the one-shot scan jobs the scheduler holds
  op,            \* the handler that ran last
  arg,           \* what it was called with
  calls,         \* the _rsoftlink calls it made, in order
  visited,       \* the history records a scan visited, in order
  pages,         \* the pages a scan asked the history store for, in order
  updated,       \* the configurations it passed to update_config, in order
  exc,           \* the exception that left the handler, "" when it returned
  pc,            \* where each thread that runs concurrently stands
  frame,         \* the locals of the _rsoftlink call of each such thread
  applied        \* the configurations given to init_plugin, in order

vars == <<fs, enabled, enforced, onlyonce, enabled_dirs, cron, scheduler, jobs,
          op, arg, calls, visited, pages, updated, exc, pc, frame, applied>>

\* the handlers that run to their end in one step leave the threads alone
thread_vars == <<pc, frame, applied>>

config_vars == <<enabled, enforced, onlyonce, enabled_dirs, cron, scheduler, jobs>>

PyNone == "None"

\* one _rsoftlink call as the observations record it; rec is the position
\* of the history record it was made for (0 outside a scan)
Call(src, dst, r, rec) ==
  [src |-> src, dst |-> Path(dst), outcome |-> r.outcome, muts |-> r.muts,
   exc |-> r.exc, rec |-> rec]

(***************************************************************************)
(* One direct call of _rsoftlink(src, dst) with the current configuration. *)
(***************************************************************************)
Sources == {P_d_f, P_d_g, P_d2_f}
Destinations == {P_l_f, P_l_g}
\* sources given relative to the working directory
RelativeSources == {<<"f">>, <<"d", "/", "f">>}

Reconciled(r, src, dst) ==
  /\ fs' = r.fs
  /\ op' = "_rsoftlink"
  /\ arg' = [src |-> src, dst |-> dst]
  /\ calls' = <<Call(src, dst, r, 0)>>
  /\ visited' = <<>>
  /\ pages' = <<>>
  /\ updated' = <<>>
  /\ exc' = r.exc
  /\ UNCHANGED config_vars
  /\ UNCHANGED thread_vars

Reconcile(src, dst) == Reconciled(rsoftlink(fs, enabled_dirs, enforced, src, dst), src, dst)

\* a run of _rsoftlink calls over pairs, in order; an exception raised by a
\* call is not caught and ends the run
RECURSIVE RunPairs(_, _, _, _, _)
RECURSIVE RunPairsStep(_, _, _, _, _)
Prepend(cs, run) == [run EXCEPT !.calls = cs \o run.calls]

RunPairsStep(r, dirs, enf, pairs, rec) ==
  IF r.exc # ""
  THEN [fs |-> r.fs, calls |-> <<Call(pairs[1][1], pairs[1][2], r, rec)>>, exc |-> r.exc]
  ELSE Prepend(<<Call(pairs[1][1], pairs[1][2], r, rec)>>,
               RunPairs(r.fs, dirs, enf, Tail(pairs), rec))

RunPairs(f, dirs, enf, pairs, rec) ==
  IF pairs = <<>> THEN [fs |-> f, calls |-> <<>>, exc |-> ""]
  ELSE RunPairsStep(rsoftlink(f, dirs, enf, pairs[1][1], pairs[1][2]),
                    dirs, enf, pairs, rec)

\* zip(a, b)
Zip(a, b) ==
  [i \in 1..(IF Len(a) < Len(b) THEN Len(a) ELSE Len(b)) |-> <<a[i], b[i]>>]

(***************************************************************************)
(* RSoftlinking.transfer_complete_event_handler.                           *)
(***************************************************************************)
\* the lists of distinct paths of S, of length at most n
DistinctLists(S, n) ==
  UNION {{q \in [1..k -> S] : \A i, j \in 1..k : i # j => q[i] # q[j]} : k \in 0..n}

Events ==
  [success : BOOLEAN,
   file_list : DistinctLists(Sources, MaxBatch),
   file_list_new : DistinctLists(Destinations, MaxBatch)]

Handled(run, ev) ==
  /\ fs' = run.fs
  /\ op' = "transfer_complete_event_handler"
  /\ arg' = ev
  /\ calls' = run.calls
  /\ visited' = <<>>
  /\ pages' = <<>>
  /\ updated' = <<>>
  /\ exc' = run.exc
  /\ UNCHANGED config_vars
  /\ UNCHANGED thread_vars

transfer_complete_event_handler(ev) ==
  Handled(IF \/ ~enabled
             \/ ~ev.success
             \/ Len(ev.file_list) # Len(ev.file_list_new)
          THEN [fs |-> fs, calls |-> <<>>, exc |-> ""]
          ELSE RunPairs(fs, enabled_dirs, enforced,
                        Zip(ev.file_list, ev.file_list_new), 0),
          ev)

(***************************************************************************)
(* RSoftlinking._active_probe over the transfer history h the store holds  *)
(* while the scan runs.  A record's files text is a JSON list of str.      *)
(***************************************************************************)
R_file == [src |-> P_d_f, dest |-> P_l_f, files |-> <<P_d_f>>, status |-> TRUE]
R_file2 == [src |-> P_d_f, dest |-> P_l_g, files |-> <<P_d_f>>, status |-> TRUE]
R_dir == [src |-> P_d, dest |-> P_l, files |-> <<P_d_f, P_d_g>>, status |-> TRUE]
R_dir2 == [src |-> P_d2, dest |-> P_l, files |-> <<P_d2_f>>, status |-> TRUE]
R_failed == [src |-> P_d_g, dest |-> P_l_g, files |-> <<P_d_g>>, status |-> FALSE]

Records == {R_file, R_dir, R_dir2, R_failed}
Histories == DistinctLists(Records, MaxRecords)

\* histories in which two records may share a source
BacklogRecords == {R_file, R_file2, R_dir, R_failed}
Backlogs == DistinctLists(BacklogRecords, MaxRecords)

\* TransferHistory.count(session, True)
count(h) == Len(SelectSeq(h, LAMBDA t : t.status))

\* TransferHistory.list_by_page(session, status=True, page=page)
list_by_page(h, page) ==
  LET ok == SelectSeq(h, LAMBDA t : t.status)
      lo == (page - 1) * PageSize + 1
      hi == IF page * PageSize < Len(ok) THEN page * PageSize ELSE Len(ok)
  IN  IF lo > hi THEN <<>> ELSE SubSeq(ok, lo, hi)

\* the branch the loop body takes for record t
RecordMode(f, t) ==
  IF Len(t.files) = 1 /\ t.files[1] = t.src THEN "single"
  ELSE IF is_dir(f, Path(t.src)) /\ is_dir(f, Path(t.dest)) THEN "directory"
  ELSE "malformed"

\* the (src, dst) it passes to _rsoftlink, in order
RecordPairs(mode, t) ==
  IF mode = "single" THEN <<(<<t.src, t.dest>>)>>
  ELSE IF mode = "directory"
  THEN [i \in DOMAIN t.files |->
          <<t.files[i], PathJoin(Path(t.dest), PathName(t.files[i]))>>]
  ELSE <<>>

\* the body of the loop over one page's records, for one record; rec is the
\* position of the record among the records visited
Visited(run, mode, t, rec) ==
  [fs |-> run.fs, calls |-> run.calls, exc |-> run.exc,
   visited |-> <<[rec |-> rec, record |-> t, mode |-> mode]>>]

VisitRecord(mode, f, dirs, enf, t, rec) ==
  Visited(RunPairs(f, dirs, enf, RecordPairs(mode, t), rec), mode, t, rec)

ProbeRecord(f, dirs, enf, t, rec) == VisitRecord(RecordMode(f, t), f, dirs, enf, t, rec)

PrependVisit(r, rest) ==
  [rest EXCEPT !.calls = r.calls \o rest.calls, !.visited = r.visited \o rest.visited]

PrependPage(r, page, rest) ==
  [rest EXCEPT !.calls = r.calls \o rest.calls,
               !.visited = r.visited \o rest.visited,
               !.pages = <<page>> \o rest.pages]

\* the for loop over the records of one page
RECURSIVE ProbePage(_, _, _, _, _)
RECURSIVE ProbePageStep(_, _, _, _, _)
ProbePageStep(r, dirs, enf, recs, seen) ==
  IF r.exc # "" THEN r
  ELSE PrependVisit(r, ProbePage(r.fs, dirs, enf, Tail(recs), seen + 1))

ProbePage(f, dirs, enf, recs, seen) ==
  IF recs = <<>> THEN [fs |-> f, calls |-> <<>>, exc |-> "", visited |-> <<>>]
  ELSE ProbePageStep(ProbeRecord(f, dirs, enf, recs[1], seen + 1), dirs, enf, recs, seen)

\* the while loop: one page per unit of counts
RECURSIVE ProbeLoop(_, _, _, _, _, _, _)
RECURSIVE ProbeLoopStep(_, _, _, _, _, _, _)
ProbeLoopStep(r, dirs, enf, h, page, counts, seen) ==
  IF r.exc # ""
  THEN [fs |-> r.fs, calls |-> r.calls, exc |-> r.exc, visited |-> r.visited,
        pages |-> <<page>>]
  ELSE PrependPage(r, page,
                   ProbeLoop(r.fs, dirs, enf, h, page + 1, counts - 1,
                             seen + Len(r.visited)))

ProbeLoop(f, dirs, enf, h, page, counts, seen) ==
  IF counts = 0
  THEN [fs |-> f, calls |-> <<>>, exc |-> "", visited |-> <<>>, pages |-> <<>>]
  ELSE ProbeLoopStep(ProbePage(f, dirs, enf, list_by_page(h, page), seen),
                     dirs, enf, h, page, counts, seen)

Probed(run, h) ==
  /\ fs' = run.fs
  /\ op' = "_active_probe"
  /\ arg' = h
  /\ calls' = run.calls
  /\ visited' = run.visited
  /\ pages' = run.pages
  /\ updated' = <<>>
  /\ exc' = run.exc
  /\ UNCHANGED thread_vars

active_probe(h) == Probed(ProbeLoop(fs, enabled_dirs, enforced, h, 1, count(h), 0), h)

(***************************************************************************)
(* RSoftlinking.init_plugin, __update_config, stop_service, get_service.   *)
(***************************************************************************)
Truthy(x) == x \notin {PyNone, ""}

\* the enabled_dirs texts and the cron texts a configuration may carry
DirTexts == {<<>>, P_d}
CronTexts == {"0 3 * * *"}

Configs ==
  [enabled : BOOLEAN, enforced : BOOLEAN, onlyonce : {FALSE},
   enabled_dirs : DirTexts, cron : CronTexts]

\* the configurations with a one-shot scan asked for, and with a blank line
\* after the directory of enabled_dirs
AllDirTexts == DirTexts \cup {P_d2 \o <<NL>>}

AllConfigs ==
  [enabled : BOOLEAN, enforced : BOOLEAN, onlyonce : BOOLEAN,
   enabled_dirs : AllDirTexts, cron : CronTexts]

\* list(map(lambda x: Path(x), text.split("\n")))
ParseDirs(text) == [i \in DOMAIN split(text, NL) |-> Path(split(text, NL)[i])]

\* "\n".join(map(str, self._enabled_dirs))
FormatDirs(dirs) == join(NL, dirs)

init_plugin(config) ==
  LET given == config # <<>>
      c == IF given THEN config[1] ELSE
           [enabled |-> enabled, enforced |-> enforced, onlyonce |-> onlyonce,
            enabled_dirs |-> <<>>, cron |-> cron]
      dirs == IF given THEN ParseDirs(c.enabled_dirs) ELSE enabled_dirs
      once == c.onlyonce
      made == c.enabled \/ once
  IN  /\ enabled' = c.enabled
      /\ enforced' = c.enforced
      /\ enabled_dirs' = dirs
      /\ cron' = c.cron
      /\ onlyonce' = FALSE
      /\ jobs' = IF once THEN 1 ELSE 0
      /\ scheduler' = IF once THEN "running" ELSE IF made THEN "created" ELSE PyNone
      /\ updated' = IF once
                    THEN <<[enabled |-> c.enabled, enforced |-> c.enforced,
                            onlyonce |-> FALSE, enabled_dirs |-> FormatDirs(dirs),
                            cron |-> c.cron]>>
                    ELSE <<>>
      /\ op' = "init_plugin"
      /\ arg' = config
      /\ calls' = <<>>
      /\ visited' = <<>>
      /\ pages' = <<>>
      /\ exc' = ""
      /\ UNCHANGED fs
      /\ UNCHANGED thread_vars

stop_service ==
  /\ scheduler' = PyNone
  /\ jobs' = 0
  /\ op' = "stop_service"
  /\ arg' = <<>>
  /\ calls' = <<>>
  /\ visited' = <<>>
  /\ pages' = <<>>
  /\ updated' = <<>>
  /\ exc' = ""
  /\ UNCHANGED <<fs, enabled, enforced, onlyonce, enabled_dirs, cron>>
  /\ UNCHANGED thread_vars

\* get_service with the test of self._enabled dropped
get_service_CronOnly == IF Truthy(cron) THEN <<"RSoftlinking">> ELSE <<>>

\* the jobs get_service offers to the host's scheduler
get_service == IF enabled /\ Truthy(cron) THEN <<"RSoftlinking">> ELSE <<>>

(***************************************************************************)
(* The initial states: the plugin as constructed, on a filesystem in which *)
(* the library directory /l exists, the old location /d/f and the new      *)
(* location /l/f hold any of the objects below, and no two links form a    *)
(* loop.                                                                   *)
(***************************************************************************)
\* the threads that call _rsoftlink, and the one that calls init_plugin
Threads == {"event", "scan"}
Procs == Threads \cup {"config"}

\* the locals of a call not yet made
NoFrame ==
  [src |-> <<>>, dst |-> <<>>, vacant |-> FALSE, dirs |-> <<>>, enf |-> FALSE,
   read |-> {}, outcome |-> "", exc |-> ""]

OldObjects == {NONE, FILE(P_d_f), DIR, LINK(P_l_f), LINK(P_l_g)}
NewObjects == {NONE, FILE(P_l_f), DIR, LINK(P_l_g), LINK(P_d_f)}

HasLoop(f) == \E p \in DOMAIN f : f[p].k = "link" /\ Follow(f, p, HopLimit) = LOOP

MakeFS(d, d_f, d2, l_f, l_g) ==
  [p \in Universe |->
     IF p = P_l THEN DIR
     ELSE IF p = P_d THEN d
     ELSE IF p = P_d_f THEN d_f
     ELSE IF p = P_d2 THEN d2
     ELSE IF p = P_l_f THEN l_f
     ELSE IF p = P_l_g THEN l_g
     ELSE NONE]

InitFS ==
  { f \in UNION { { MakeFS(d, d_f, d2, l_f, l_g) :
                      d_f \in (IF d = DIR THEN OldObjects ELSE {NONE}),
                      d2 \in {NONE, DIR},
                      l_f \in NewObjects,
                      l_g \in {NONE, FILE(P_l_g)} } :
                  d \in {NONE, DIR, FILE(P_d)} } :
      ~HasLoop(f) }

Init ==
  /\ fs \in InitFS
  /\ enabled = FALSE
  /\ enforced = FALSE
  /\ onlyonce = FALSE
  /\ enabled_dirs = <<>>
  /\ cron = PyNone
  /\ scheduler = PyNone
  /\ jobs = 0
  /\ op = "idle"
  /\ arg = <<>>
  /\ calls = <<>>
  /\ visited = <<>>
  /\ pages = <<>>
  /\ updated = <<>>
  /\ exc = ""
  /\ pc = [p \in Procs |-> "idle"]
  /\ frame = [t \in Threads |-> NoFrame]
  /\ applied = <<>>

(***************************************************************************)
(* The steps: the host calls a handler of the idle plugin, which runs to   *)
(* its end; then the handler's observations are dropped.                   *)
(***************************************************************************)
Idle == op = "idle"

InitPlugin == Idle /\ \E c \in Configs : init_plugin(<<c>>)

Configure == Idle /\ \E c \in AllConfigs : init_plugin(<<c>>)

TransferComplete == Idle /\ \E ev \in Events : transfer_complete_event_handler(ev)

\* the host's scheduler runs the job get_service offers
CronScan ==
  /\ Idle
  /\ get_service # <<>>
  /\ \E h \in Histories : active_probe(h)
  /\ UNCHANGED config_vars

\* the host's scheduler runs the job over a backlog
BacklogScan ==
  /\ Idle
  /\ get_service # <<>>
  /\ \E h \in Backlogs : active_probe(h)
  /\ UNCHANGED config_vars

\* the scheduler runs the job again while the history is as it was
Rescan ==
  /\ op = "_active_probe"
  /\ get_service # <<>>
  /\ active_probe(arg)
  /\ UNCHANGED config_vars

\* the plugin's own scheduler runs the one-shot job init_plugin added, and
\* drops it
OneShotScan ==
  /\ Idle
  /\ scheduler = "running"
  /\ jobs > 0
  /\ \E h \in Histories : active_probe(h)
  /\ jobs' = jobs - 1
  /\ UNCHANGED <<enabled, enforced, onlyonce, enabled_dirs, cron, scheduler>>

\* the host initialises the plugin again with the configuration the plugin
\* saved last
ReloadPlugin ==
  /\ op = "init_plugin"
  /\ updated # <<>>
  /\ init_plugin(<<updated[Len(updated)]>>)

\* one call of _rsoftlink on its own
ReconcileCall ==
  Idle /\ \E src \in Sources \cup RelativeSources, dst \in Destinations :
            Reconcile(src, dst)

\* the host unloads the plugin
StopService == Idle /\ stop_service

Return ==
  /\ ~Idle
  /\ op' = "idle"
  /\ arg' = <<>>
  /\ calls' = <<>>
  /\ visited' = <<>>
  /\ pages' = <<>>
  /\ updated' = <<>>
  /\ exc' = ""
  /\ UNCHANGED <<fs, enabled, enforced, onlyonce, enabled_dirs, cron, scheduler, jobs>>
  /\ UNCHANGED thread_vars

Next ==
  \/ InitPlugin \/ StopService
  \/ TransferComplete \/ CronScan
  \/ ReconcileCall \/ Return

Spec == Init /\ [][Next]_vars

(***************************************************************************)
(* The scheduled scan alone, over backlogs, run again and again.           *)
(***************************************************************************)
NextScan == InitPlugin \/ BacklogScan \/ Rescan \/ Return

SpecScan == Init /\ [][NextScan]_vars

(***************************************************************************)
(* The plugin under every configuration, one-shot scans and reloads        *)
(* included, on the filesystems in which the files have been moved to the  *)
(* library and their old locations are vacant.                             *)
(***************************************************************************)
MovedFS ==
  { MakeFS(d, NONE, NONE, FILE(P_l_f), l_g) :
      d \in {NONE, DIR}, l_g \in {NONE, FILE(P_l_g)} }

InitConfig ==
  /\ Init
  /\ fs \in MovedFS

NextConfig ==
  \/ Configure \/ ReloadPlugin \/ StopService
  \/ TransferComplete \/ CronScan \/ OneShotScan
  \/ ReconcileCall \/ Return

SpecConfig == InitConfig /\ [][NextConfig]_vars

(***************************************************************************)
(* The two triggers and a configuration update running concurrently.  The  *)
(* event thread and the scan thread each make one _rsoftlink call; a step  *)
(* of a thread is one statement of _rsoftlink that reads the configuration *)
(* or calls the filesystem.  The third thread runs init_plugin, one        *)
(* assignment of a field a step.                                           *)
(***************************************************************************)
obs_vars == <<op, arg, calls, visited, pages, updated, exc>>

RaceSource == P_d_f

Goto(t, to, fr) ==
  /\ pc' = [pc EXCEPT ![t] = to]
  /\ frame' = [frame EXCEPT ![t] = fr]

Finish(t, fr, outcome, e) ==
  Goto(t, "done", [fr EXCEPT !.outcome = outcome, !.exc = e])

\* the handler of the thread calls _rsoftlink(src, dst)
Begin(t) ==
  /\ pc[t] = "idle"
  /\ \E dst \in Destinations :
       Goto(t, "scope", [NoFrame EXCEPT !.src = RaceSource, !.dst = Path(dst),
                                       !.vacant = (lstat(fs, RaceSource).k = "none")])
  /\ UNCHANGED <<fs, config_vars, obs_vars, applied>>

\* lines 101-108: reads self._enabled_dirs
ScopeStep(t) ==
  /\ pc[t] = "scope"
  /\ IF ~ScopeGate(enabled_dirs, dirname(frame[t].src))
     THEN Finish(t, [frame[t] EXCEPT !.dirs = enabled_dirs, !.read = @ \cup {"dirs"}],
                 "SkippedOutOfScope", "")
     ELSE Goto(t, "destination",
               [frame[t] EXCEPT !.dirs = enabled_dirs, !.read = @ \cup {"dirs"}])
  /\ UNCHANGED <<fs, config_vars, obs_vars, applied>>

\* lines 109-112
DestinationStep(t) ==
  /\ pc[t] = "destination"
  /\ IF ~(exists(fs, frame[t].dst) /\ is_file(fs, frame[t].dst))
     THEN Finish(t, frame[t], "SkippedDestinationMissing", "")
     ELSE Goto(t, "cycle", frame[t])
  /\ UNCHANGED <<fs, config_vars, obs_vars, applied>>

\* lines 113-117
CycleStep(t) ==
  /\ pc[t] = "cycle"
  /\ IF CycleGate(fs, frame[t].src, frame[t].dst)
     THEN Finish(t, frame[t], "SkippedCycle", "")
     ELSE Goto(t, "makedirs", frame[t])
  /\ UNCHANGED <<fs, config_vars, obs_vars, applied>>

\* line 118
Makedirs(t, md) ==
  /\ fs' = md.fs
  /\ IF md.exc # "" THEN Finish(t, frame[t], "FailedIO", md.exc)
     ELSE Goto(t, "exists", frame[t])

MakedirsStep(t) ==
  /\ pc[t] = "makedirs"
  /\ Makedirs(t, makedirs(fs, dirname(frame[t].src)))
  /\ UNCHANGED <<config_vars, obs_vars, applied>>

\* line 119
ExistsStep(t) ==
  /\ pc[t] = "exists"
  /\ IF exists(fs, frame[t].src) THEN Goto(t, "valid", frame[t])
     ELSE Goto(t, "symlink", [frame[t] EXCEPT !.outcome = "Created"])
  /\ UNCHANGED <<fs, config_vars, obs_vars, applied>>

\* lines 121-123
ValidStep(t) ==
  /\ pc[t] = "valid"
  /\ IF is_valid_link(fs, frame[t].src, frame[t].dst)
     THEN Finish(t, frame[t], "AlreadyValid", "")
     ELSE Goto(t, "enforced", frame[t])
  /\ UNCHANGED <<fs, config_vars, obs_vars, applied>>

\* lines 124-128: reads self._enforced
EnforcedStep(t) ==
  /\ pc[t] = "enforced"
  /\ IF ~enforced
     THEN Finish(t, [frame[t] EXCEPT !.enf = enforced, !.read = @ \cup {"enf"}],
                 "SkippedConflictNotEnforced", "")
     ELSE Goto(t, "remove", [frame[t] EXCEPT !.enf = enforced, !.read = @ \cup {"enf"}])
  /\ UNCHANGED <<fs, config_vars, obs_vars, applied>>

\* line 130
Remove(t, rm) ==
  /\ fs' = rm.fs
  /\ IF rm.exc # "" THEN Finish(t, frame[t], "FailedIO", rm.exc)
     ELSE Goto(t, "symlink", [frame[t] EXCEPT !.outcome = "Repaired"])

RemoveStep(t) ==
  /\ pc[t] = "remove"
  /\ Remove(t, os_remove(fs, frame[t].src))
  /\ UNCHANGED <<config_vars, obs_vars, applied>>

\* line 131
Symlink(t, ln) ==
  /\ fs' = ln.fs
  /\ IF ln.exc # "" THEN Finish(t, frame[t], "FailedIO", ln.exc)
     ELSE Finish(t, frame[t], frame[t].outcome, "")

SymlinkStep(t) ==
  /\ pc[t] = "symlink"
  /\ Symlink(t, os_symlink(fs, frame[t].dst, frame[t].src))
  /\ UNCHANGED <<config_vars, obs_vars, applied>>

\* the configuration init_plugin is assigning
Given == applied[Len(applied)]

UpdateTo(to) ==
  /\ pc' = [pc EXCEPT !["config"] = to]
  /\ UNCHANGED <<fs, obs_vars, frame>>

\* line 45: the host calls init_plugin(config)
UpdateBegin ==
  /\ pc["config"] = "idle"
  /\ \E c \in Configs : applied' = Append(applied, c)
  /\ UpdateTo("enabled")
  /\ UNCHANGED config_vars

\* line 48
SetEnabled ==
  /\ pc["config"] = "enabled"
  /\ enabled' = Given.enabled
  /\ UpdateTo("enforced")
  /\ UNCHANGED <<enforced, onlyonce, enabled_dirs, cron, scheduler, jobs, applied>>

\* line 49
SetEnforced ==
  /\ pc["config"] = "enforced"
  /\ enforced' = Given.enforced
  /\ UpdateTo("onlyonce")
  /\ UNCHANGED <<enabled, onlyonce, enabled_dirs, cron, scheduler, jobs, applied>>

\* line 50
SetOnlyonce ==
  /\ pc["config"] = "onlyonce"
  /\ onlyonce' = Given.onlyonce
  /\ UpdateTo("enabled_dirs")
  /\ UNCHANGED <<enabled, enforced, enabled_dirs, cron, scheduler, jobs, applied>>

\* lines 51-53
SetEnabledDirs ==
  /\ pc["config"] = "enabled_dirs"
  /\ enabled_dirs' = ParseDirs(Given.enabled_dirs)
  /\ UpdateTo("cron")
  /\ UNCHANGED <<enabled, enforced, onlyonce, cron, scheduler, jobs, applied>>

\* line 54
SetCron ==
  /\ pc["config"] = "cron"
  /\ cron' = Given.cron
  /\ UpdateTo("service")
  /\ UNCHANGED <<enabled, enforced, onlyonce, enabled_dirs, scheduler, jobs, applied>>

\* lines 55-71
SetService ==
  /\ pc["config"] = "service"
  /\ scheduler' = IF onlyonce THEN "running" ELSE IF enabled THEN "created" ELSE PyNone
  /\ jobs' = IF onlyonce THEN 1 ELSE 0
  /\ onlyonce' = FALSE
  /\ UpdateTo("done")
  /\ UNCHANGED <<enabled, enforced, enabled_dirs, cron, applied>>

\* the plugin, enabled by the configuration c, with no handler running
Configured(c) ==
  /\ enabled = c.enabled
  /\ enforced = c.enforced
  /\ onlyonce = FALSE
  /\ enabled_dirs = ParseDirs(c.enabled_dirs)
  /\ cron = c.cron
  /\ scheduler = "created"
  /\ jobs = 0
  /\ applied = <<c>>

\* the old location holds nothing or a regular file, its directory may be
\* missing, and both new locations are regular files
RaceFS ==
  { MakeFS(d, d_f, NONE, FILE(P_l_f), FILE(P_l_g)) :
      d \in {DIR}, d_f \in {NONE, FILE(P_d_f)} }
  \cup {MakeFS(NONE, NONE, NONE, FILE(P_l_f), FILE(P_l_g))}

InitRace ==
  /\ fs \in RaceFS
  /\ \E c \in {x \in Configs : x.enabled} : Configured(c)
  /\ op = "idle"
  /\ arg = <<>>
  /\ calls = <<>>
  /\ visited = <<>>
  /\ pages = <<>>
  /\ updated = <<>>
  /\ exc = ""
  /\ pc = [p \in Procs |-> "idle"]
  /\ frame = [t \in Threads |-> NoFrame]

Step(t) ==
  \/ Begin(t) \/ ScopeStep(t) \/ DestinationStep(t) \/ CycleStep(t)
  \/ MakedirsStep(t) \/ ExistsStep(t) \/ ValidStep(t) \/ EnforcedStep(t)
  \/ RemoveStep(t) \/ SymlinkStep(t)

Update ==
  \/ UpdateBegin \/ SetEnabled \/ SetEnforced \/ SetOnlyonce
  \/ SetEnabledDirs \/ SetCron \/ SetService

NextRace == (\E t \in Threads : Step(t)) \/ Update

SpecRace == InitRace /\ [][NextRace]_vars

(***************************************************************************)
(* Properties.                                                             *)
(***************************************************************************)
\* the (src, dst) of a run of calls, in order
CallPairs(cs) == [i \in DOMAIN cs |-> <<cs[i].src, cs[i].dst>>]

\* the state is the one a direct _rsoftlink call has just left
Called == op = "_rsoftlink"

SkipOutcomes ==
  {"SkippedOutOfScope", "SkippedDestinationMissing", "SkippedCycle",
   "SkippedConflictNotEnforced"}

\* C1: two reconcile calls in a row with the same source and destination,
\* the first of which created the link, are Created then AlreadyValid, and
\* the second makes no filesystem mutation.
C1_Idempotence ==
  \A i \in 1..(Len(calls) - 1) :
    (/\ calls[i].src = calls[i + 1].src
     /\ calls[i].dst = calls[i + 1].dst
     /\ calls[i].outcome = "Created")
    => (calls[i + 1].outcome = "AlreadyValid" /\ calls[i + 1].muts = <<>>)

\* C2: a reconcile call whose destination is a symbolic link that resolves
\* to its source leaves the filesystem as it was, whatever enforced is and
\* whatever occupies the source.
C2_CycleGuard ==
  [][(/\ op' = "_rsoftlink"
      /\ is_symlink(fs, Path(arg'.dst))
      /\ resolve(fs, arg'.dst) = Path(arg'.src))
     => fs' = fs]_vars

\* C3: a handler that accepts a batch calls reconcile for every request of
\* the batch, also after a request that failed: an accepted event makes one
\* call per position, and a scan visits every successful record.
C3_FailureIsolation ==
  /\ (/\ op = "transfer_complete_event_handler"
      /\ enabled /\ arg.success
      /\ Len(arg.file_list) = Len(arg.file_list_new))
     => Len(calls) = Len(arg.file_list)
  /\ op = "_active_probe" => Len(visited) = count(arg)

\* the configured directories: the entries of enabled_dirs that name one
\* (a blank line of the configuration text names none)
EnabledDirectories(dirs) == {dirs[i] : i \in DOMAIN dirs} \ {<<DOT>>}

\* directory x is dir or an ancestor of dir, compared segment by segment
IsAncestorOrEqual(x, dir) ==
  /\ PathRoot(x) = PathRoot(dir)
  /\ Len(PathParts(x)) <= Len(PathParts(dir))
  /\ \A i \in 1..Len(PathParts(x)) : PathParts(x)[i] = PathParts(dir)[i]

InScope(dirs, src) ==
  \/ EnabledDirectories(dirs) = {}
  \/ \E x \in EnabledDirectories(dirs) : IsAncestorOrEqual(x, dirname(src))

\* C4: a reconcile call is stopped by the scope gate exactly when no
\* configured directory is the source's directory or an ancestor of it,
\* segment by segment; a stopped call makes no mutation.
C4_ScopeGate ==
  \A i \in DOMAIN calls :
    /\ calls[i].outcome = "SkippedOutOfScope" <=> ~InScope(enabled_dirs, calls[i].src)
    /\ calls[i].outcome = "SkippedOutOfScope" => calls[i].muts = <<>>

\* C5 as stated: every reconcile call makes at most one filesystem mutation.
C5_AtMostOneMutation == \A i \in DOMAIN calls : Len(calls[i].muts) <= 1

\* the mutations of kind k among muts
OfKind(muts, k) == SelectSeq(muts, LAMBDA m : m.op = k)

\* C5 amended: a reconcile call makes at most one removal and at most one
\* link, besides making missing parent directories of its source: nothing
\* when it skips or finds the link valid, parent directories and then the
\* one link when it creates, one removal and then the one link when it
\* repairs.
C5_MutationsPerOutcome ==
  \A i \in DOMAIN calls :
    LET c == calls[i]
        n == Len(c.muts)
    IN  /\ Len(OfKind(c.muts, "remove")) <= 1
        /\ Len(OfKind(c.muts, "symlink")) <= 1
        /\ \A k \in 1..n :
             c.muts[k].op = "mkdir" => IsAncestorOrEqual(c.muts[k].p, dirname(c.src))
        /\ c.outcome \in SkipOutcomes \cup {"AlreadyValid"} => c.muts = <<>>
        /\ c.outcome = "Created" =>
             /\ n >= 1
             /\ c.muts[n] = [op |-> "symlink", p |-> c.src, t |-> c.dst]
             /\ \A k \in 1..(n - 1) : c.muts[k].op = "mkdir"
        /\ c.outcome = "Repaired" =>
             c.muts = <<[op |-> "remove", p |-> c.src, t |-> <<>>],
                        [op |-> "symlink", p |-> c.src, t |-> c.dst]>>

\* a call that made a parent directory and then the link
C5_Witness ==
  \E i \in DOMAIN calls : calls[i].outcome = "Created" /\ Len(calls[i].muts) = 2

\* C6: with enforced set, a reconcile call in scope whose destination is a
\* regular file and whose source holds a regular file or a symbolic link
\* (dangling or not) that is no valid link to the destination leaves the
\* source a symbolic link to the destination.
C6_EnforcedRepair ==
  [][(/\ op' = "_rsoftlink"
      /\ enforced
      /\ lstat(fs, arg'.src).k \in {"file", "link"}
      /\ ~is_valid_link(fs, arg'.src, arg'.dst)
      /\ lstat(fs, arg'.dst).k = "file"
      /\ InScope(enabled_dirs, arg'.src))
     => lstat(fs', arg'.src) = LINK(arg'.dst)]_vars

\* C7: without enforced, a reconcile call whose source holds something
\* that is no valid link to the destination makes no mutation and leaves
\* the filesystem, the object at the source included, as it was.
C7_ConflictNotEnforced ==
  [][(/\ op' = "_rsoftlink"
      /\ ~enforced
      /\ lstat(fs, arg'.src).k # "none"
      /\ ~is_valid_link(fs, arg'.src, arg'.dst))
     => (fs' = fs /\ calls'[1].muts = <<>>)]_vars

\* a call that met a regular file at the source of a usable destination
\* and left it alone
C7_Witness ==
  /\ Called /\ ~enforced
  /\ calls[1].outcome = "SkippedConflictNotEnforced"
  /\ lstat(fs, arg.src).k = "file"

\* C8: a reconcile call whose destination does not exist or is no regular
\* file makes no mutation, and the target of every link a call makes was an
\* existing regular file when the call began.
C8_DestinationGate ==
  [][op' = "_rsoftlink" =>
       /\ ~(exists(fs, Path(arg'.dst)) /\ is_file(fs, Path(arg'.dst)))
            => (fs' = fs /\ calls'[1].muts = <<>>)
       /\ \A k \in DOMAIN calls'[1].muts :
            calls'[1].muts[k].op = "symlink" =>
              /\ calls'[1].muts[k].t = Path(arg'.dst)
              /\ is_file(fs, calls'[1].muts[k].t)]_vars

\* a call in scope stopped by a destination that is a directory, with the
\* source and its parent directory missing and still missing
C8_Witness ==
  /\ Called
  /\ calls[1].outcome = "SkippedDestinationMissing"
  /\ lstat(fs, Path(arg.dst)).k = "dir"
  /\ lstat(fs, dirname(arg.src)).k = "none"

\* C9: an event of a failed transfer, or with lists of different lengths,
\* leads to no reconcile call; any other event, the plugin being enabled,
\* leads to exactly one call per position i, for (file_list[i],
\* file_list_new[i]), in order.
C9_EventEntry ==
  op = "transfer_complete_event_handler" =>
    IF ~arg.success \/ Len(arg.file_list) # Len(arg.file_list_new)
    THEN calls = <<>>
    ELSE enabled =>
           CallPairs(calls) =
             [i \in DOMAIN arg.file_list |->
                <<arg.file_list[i], Path(arg.file_list_new[i])>>]

\* the calls a scan made for the record it visited as number rec
CallsFor(rec) == SelectSeq(calls, LAMBDA c : c.rec = rec)

\* C10: a scan makes, for a record whose files are its source alone, the
\* one call (source, destination); for any other record whose source and
\* destination are directories, one call (f, destination / name of f) per
\* file f, in order; for every other record no call, and it goes on with
\* the next record.
C10_Expansion ==
  op = "_active_probe" =>
    \A k \in DOMAIN visited :
      LET t == visited[k].record
          cs == CallPairs(CallsFor(visited[k].rec))
      IN  IF Len(t.files) = 1 /\ t.files[1] = t.src
          THEN cs = <<(<<t.src, Path(t.dest)>>)>>
          ELSE IF visited[k].mode = "directory"
          THEN cs = [i \in DOMAIN t.files |->
                       <<t.files[i], PathJoin(t.dest, PathName(t.files[i]))>>]
          ELSE cs = <<>> /\ (k < count(arg) => Len(visited) > k)

\* C11: while the enabled_dirs text of the configuration is empty (or the
\* plugin has its defaults), no reconcile call, whether its source is
\* absolute or relative, is stopped by the scope gate.
C11_EmptyScope ==
  enabled_dirs \in {<<>>, ParseDirs(<<>>)} =>
    \A i \in DOMAIN calls : calls[i].outcome # "SkippedOutOfScope"

\* a call with a relative source that went through the gate under a
\* configuration with the empty text, and made the link
C11_Witness ==
  /\ Called
  /\ enabled_dirs = ParseDirs(<<>>)
  /\ arg.src \in RelativeSources
  /\ calls[1].outcome = "Created"

\* C12: a scan that no exception left has visited every successful record
\* of the history once, in the store's order, and every page it asked the
\* store for held a record: it asked for no page after the last one that
\* is not empty.
C12_ScanCoverage ==
  (op = "_active_probe" /\ exc = "") =>
    /\ [k \in DOMAIN visited |-> visited[k].record] = SelectSeq(arg, LAMBDA t : t.status)
    /\ \A i \in DOMAIN pages : list_by_page(arg, pages[i]) # <<>>

\* C13: when the event thread and the scan thread have both finished a
\* reconcile call for the same source and destination, with no
\* configuration update, the source in scope, the destination a regular
\* file, and enforced set or the source vacant when each call began, then
\* neither call has failed and the source is a valid link to the
\* destination.
C13_InterleavingSafety ==
  (/\ \A t \in Threads : pc[t] = "done"
   /\ pc["config"] = "idle"
   /\ frame["event"].dst = frame["scan"].dst
   /\ InScope(enabled_dirs, RaceSource)
   /\ lstat(fs, frame["event"].dst).k = "file"
   /\ (enforced \/ \A t \in Threads : frame[t].vacant))
  => /\ \A t \in Threads : frame[t].exc = ""
     /\ is_valid_link(fs, RaceSource, frame["event"].dst)

\* C14: the enabled_dirs and the enforced a reconcile call has read are
\* those of one configuration given to the plugin: of the one in force
\* before an update or of the one the update brings.
C14_SnapshotConsistency ==
  \A t \in Threads :
    frame[t].read = {"dirs", "enf"} =>
      \E k \in DOMAIN applied :
        /\ frame[t].dirs = ParseDirs(applied[k].enabled_dirs)
        /\ frame[t].enf = applied[k].enforced

\* C15: a complete scan that follows a complete scan over the same
\* history, nothing else having touched the filesystem in between, makes
\* no filesystem mutation.
C15_ScanIdempotence ==
  [][(/\ op = "_active_probe" /\ exc = ""
      /\ op' = "_active_probe" /\ exc' = ""
      /\ arg' = arg)
     => (fs' = fs /\ \A i \in DOMAIN calls' : calls'[i].muts = <<>>)]_vars

\* the new location of the file f that record t moved
DestinationOf(t, f) ==
  IF Len(t.files) = 1 /\ t.files[1] = t.src THEN Path(t.dest)
  ELSE PathJoin(t.dest, PathName(f))

\* C16: a complete scan under an unrestricted scope leaves, for every
\* successful record of the history and every file of it whose old
\* location was vacant and whose new location was a regular file when the
\* scan began, a symbolic link to the new location at the old one, also
\* when the directory of the old location was missing.
C16_BacklogCatchUp ==
  [][(/\ op' = "_active_probe" /\ exc' = ""
      /\ EnabledDirectories(enabled_dirs) = {})
     => \A k \in DOMAIN arg' :
          arg'[k].status =>
            \A i \in DOMAIN arg'[k].files :
              (/\ lstat(fs, arg'[k].files[i]).k = "none"
               /\ exists(fs, DestinationOf(arg'[k], arg'[k].files[i]))
               /\ is_file(fs, DestinationOf(arg'[k], arg'[k].files[i])))
              => lstat(fs', arg'[k].files[i])
                   = LINK(DestinationOf(arg'[k], arg'[k].files[i]))]_vars

\* C17: under a configuration whose enabled_dirs text has a directory
\* line and a blank line, a reconcile call whose source is in or below
\* none of the directories named is stopped by the scope gate and makes no
\* mutation.
C17_BlankLines ==
  (/\ EnabledDirectories(enabled_dirs) # {}
   /\ \E i \in DOMAIN enabled_dirs : enabled_dirs[i] = <<DOT>>)
  => \A i \in DOMAIN calls :
       ~InScope(enabled_dirs, calls[i].src)
       => (calls[i].outcome = "SkippedOutOfScope" /\ calls[i].muts = <<>>)

\* C18: a reconcile call changes no path but its source and the missing
\* directories above it; its destination, the file the destination
\* resolves to and every other path are after the call what they were
\* before it.
C18_Frame ==
  [][op' = "_rsoftlink" =>
       /\ \A p \in Universe :
            lstat(fs', p) # lstat(fs, p) =>
              \/ p = Abs(arg'.src)
              \/ /\ IsAncestorOrEqual(p, dirname(Abs(arg'.src)))
                 /\ lstat(fs, p).k = "none"
                 /\ lstat(fs', p).k = "dir"
       /\ lstat(fs', arg'.dst) = lstat(fs, arg'.dst)
       /\ lstat(fs', resolve(fs, arg'.dst)) = lstat(fs, resolve(fs, arg'.dst))]_vars

\* the configuration init_plugin saves after it has scheduled the one-shot
\* scan that config asked for
Persisted(config) ==
  [enabled |-> config.enabled, enforced |-> config.enforced, onlyonce |-> FALSE,
   enabled_dirs |-> FormatDirs(ParseDirs(config.enabled_dirs)), cron |-> config.cron]

\* C19: while the plugin is disabled, the event handler calls reconcile
\* never and leaves the filesystem alone, get_service offers no job, and a
\* scan runs only as the one-shot job of the plugin's scheduler, which is
\* then gone; init_plugin schedules that job exactly when its
\* configuration has onlyonce set, and then resets onlyonce and saves the
\* configuration with onlyonce false; init_plugin with the saved
\* configuration schedules no scan and saves nothing.
C19_Disabled ==
  [][/\ (op' = "transfer_complete_event_handler" /\ ~enabled)
          => (fs' = fs /\ calls' = <<>>)
     /\ ~enabled => get_service = <<>>
     /\ (op' = "_active_probe" /\ ~enabled)
          => (scheduler = "running" /\ jobs = 1 /\ jobs' = 0)
     /\ op' = "init_plugin"
          => /\ onlyonce' = FALSE
             /\ jobs' = (IF arg'[1].onlyonce THEN 1 ELSE 0)
             /\ updated' = (IF arg'[1].onlyonce THEN <<Persisted(arg'[1])>> ELSE <<>>)
     /\ (op = "init_plugin" /\ op' = "init_plugin")
          => (arg' = updated /\ jobs' = 0 /\ updated' = <<>>)]_vars

\* the one-shot scan of a disabled plugin has run and made a reconcile
\* call, and no job is left
C19_Witness ==
  /\ op = "_active_probe"
  /\ ~enabled
  /\ calls # <<>>
  /\ jobs = 0

====
